---------------------------- MODULE Spec2Model ----------------------------
(***************************************************************************)
(* A model of the distributed API monitor: the HTTP checker and its        *)
(* concurrent batch runner (internal/checker/http.go), the insight engine  *)
(* with its rule-based fallback (internal/ai), the web boundary            *)
(* (cmd/web/main.go), the endpoint registry with its polling loops         *)
(* (internal/grpc/server.go), the result store                             *)
(* (internal/storage/postgres.go) and the query tool (cmd/query/main.go).  *)
(*                                                                         *)
(* Durations are Go time.Duration values.  The model counts them in        *)
(* microseconds instead of nanoseconds so that sums stay inside TLC's      *)
(* integers; every threshold of the code (500ms, 1s, 2s) is a whole number *)
(* of either unit, and the inputs include values one unit away from each   *)
(* threshold.  Confidences are in hundredths (0.95 is 95).                 *)
(***************************************************************************)
EXTENDS Integers, Sequences, FiniteSets, TLC

VARIABLES
    \* HTTPChecker.CheckMultiple (one call in progress)
    cmUrls,      \* the urls argument
    cmPc,        \* position of the calling goroutine
    cmLaunched,  \* how many iterations of the launching loop have run
    cmTask,      \* per launched goroutine: its position and the result it holds
    cmDone,      \* the buffered channel `done`
    cmResults,   \* the slice `results`
    cmI,         \* the collecting loop's index i (0-based, as in the code)
    \* the insight engine (one call of one of its functions)
    insResults,  \* the results argument
    insOp,       \* which function has been applied to it ("none" before the call)
    insCall,     \* what the completion service did during the call
    insOut,      \* what the call came back with
    insAgain,    \* what a second call on the same results came back with
    \* the web server (cmd/web/main.go)
    wsUrls,      \* ws.urls
    wsAiEnabled, \* ws.aiClient != nil
    wsReq,       \* the GET requests being handled: position, snapshot, response
    wsLast,      \* the last POST or DELETE request handled and its response
    wsReaders,   \* the requests that hold ws.urlsMutex for reading
    \* the endpoint registry (internal/grpc/server.go)
    regNow,          \* time.Now().Unix(), in seconds
    regEndpoints,    \* s.endpoints
    regStopChannels, \* s.stopChannels: id -> the channel made for it
    regLoops,        \* per goroutine started by startMonitoring: its endpoint,
                     \* its position, its stop channel's state, its locals
    regStream,       \* s.resultStream
    regHasStore,     \* s.store != nil
    regTicks,        \* how many ticks the tickers have delivered
    regReceived,     \* how many results the consumer has taken
    regPanicked,     \* a goroutine panicked: the process is gone
    regLast,         \* what the last StopMonitoring call found: "none" before the
                     \* first call, "stopped" or "absent"
    \* the result store (internal/storage/postgres.go) and the query tool
    dbRows,          \* the committed rows of check_results, in insertion order
    stLast           \* the last call of the store or run of the query tool

cmVars == <<cmUrls, cmPc, cmLaunched, cmTask, cmDone, cmResults, cmI>>

insVars == <<insResults, insOp, insCall, insOut, insAgain>>

wsVars == <<wsUrls, wsAiEnabled, wsReq, wsLast, wsReaders>>

regVars == <<regNow, regEndpoints, regStopChannels, regLoops, regStream,
             regHasStore, regTicks, regReceived, regPanicked, regLast>>

stVars == <<dbRows, stLast>>

vars == <<cmUrls, cmPc, cmLaunched, cmTask, cmDone, cmResults, cmI,
          insResults, insOp, insCall, insOut, insAgain,
          wsUrls, wsAiEnabled, wsReq, wsLast, wsReaders,
          regNow, regEndpoints, regStopChannels, regLoops, regStream,
          regHasStore, regTicks, regReceived, regPanicked, regLast,
          dbRows, stLast>>

-----------------------------------------------------------------------------
(* Bounds and input sets *)

MaxUrls == 2

Millisecond == 1000

Second == 1000 * Millisecond

URLs == {"https://a", "https://b"}

\* Sequences over S of length 0..n
RECURSIVE SeqsUpTo(_, _)
SeqsUpTo(S, n) ==
    IF n = 0 THEN {<<>>}
    ELSE LET shorter == SeqsUpTo(S, n - 1)
         IN  shorter \cup {Append(s, x) : s \in {t \in shorter : Len(t) = n - 1}, x \in S}

-----------------------------------------------------------------------------
(* internal/checker/http.go *)

\* What c.client.Get(url) can come back with: an error (no response), or a
\* response with a status code; `elapsed` is time.Since(start).
TransportFailure(msg, elapsed) ==
    [failed |-> TRUE, msg |-> msg, code |-> 0, elapsed |-> elapsed]

Response(code, elapsed) ==
    [failed |-> FALSE, msg |-> "", code |-> code, elapsed |-> elapsed]

\* The zero value of CheckResult (CheckedAt is left out of the model)
ZeroResult ==
    [url |-> "", statusCode |-> 0, responseTime |-> 0, isHealthy |-> FALSE, error |-> ""]

CheckLaxRange(url, o) ==
    LET result == [ZeroResult EXCEPT !.url = url, !.responseTime = o.elapsed]
    IN  IF o.failed
        THEN [result EXCEPT !.error = o.msg, !.isHealthy = FALSE]
        ELSE [result EXCEPT !.statusCode = o.code, !.isHealthy = o.code >= 200]

CheckDropsError(url, o) ==
    LET result == [ZeroResult EXCEPT !.url = url, !.responseTime = o.elapsed]
    IN  IF o.failed
        THEN [result EXCEPT !.isHealthy = FALSE]
        ELSE [result EXCEPT !.statusCode = o.code,
                            !.isHealthy = o.code >= 200 /\ o.code < 300]

\* HTTPChecker.Check
Check(url, o) ==
    LET result == [ZeroResult EXCEPT !.url = url, !.responseTime = o.elapsed]
    IN  IF o.failed
        THEN [result EXCEPT !.error = o.msg, !.isHealthy = FALSE]
        ELSE [result EXCEPT !.statusCode = o.code,
                            !.isHealthy = o.code >= 200 /\ o.code < 300]

\* Outcomes of a probe inside CheckMultiple: status codes on both sides of
\* the 2xx range, and a transport failure.
CMOutcomes ==
    {Response(c, 100 * Millisecond) : c \in {199, 200, 299, 300}}
        \cup {TransportFailure("timeout", 5 * Second)}

\* a map with no keys
EmptyMap == [k \in {} |-> k]

\* no StopMonitoring call yet
NoRegCall == "none"

\* the registry as NewMonitorServer leaves it, nothing running
IdleReg ==
    /\ regNow = 0
    /\ regEndpoints = EmptyMap
    /\ regStopChannels = EmptyMap
    /\ regLoops = <<>>
    /\ regStream = <<>>
    /\ regHasStore = FALSE
    /\ regTicks = 0
    /\ regReceived = 0
    /\ regPanicked = FALSE
    /\ regLast = NoRegCall

\* no call of the store yet
NoStoreCall ==
    [op |-> "none", url |-> "", limit |-> 0, err |-> <<>>, results |-> <<>>,
     stats |-> "none", avgResponseTime |-> 0]

\* the table as createTables leaves it
IdleStore ==
    /\ dbRows = <<>>
    /\ stLast = NoStoreCall

\* the web server is not part of the run
IdleWeb ==
    /\ wsUrls = <<>>
    /\ wsAiEnabled = FALSE
    /\ wsReq = <<>>
    /\ wsLast = <<>>
    /\ wsReaders = {}

\* no CheckMultiple call is in progress
IdleCM ==
    /\ cmUrls = <<>>
    /\ cmPc = "idle"
    /\ cmLaunched = 0
    /\ cmTask = <<>>
    /\ cmDone = <<>>
    /\ cmResults = <<>>
    /\ cmI = 0

-----------------------------------------------------------------------------
(* internal/ai: the insight engine *)

\* What a call comes back with: the insights and the error it returns, or a
\* run-time panic (Go panics on an integer division by zero).  An error is
\* the chain of its messages, outermost first; nil is the empty chain.
Returned(insights, err) == [panicked |-> FALSE, insights |-> insights, err |-> err]

Panicked == [panicked |-> TRUE, insights |-> <<>>, err |-> <<"integer divide by zero">>]

NoOutput == Returned(<<>>, <<>>)

NoCall == [kind |-> "none", content |-> <<>>]

\* no insight-engine call is in progress
IdleIns ==
    /\ insResults = <<>>
    /\ insOp = "idle"
    /\ insCall = NoCall
    /\ insOut = NoOutput
    /\ insAgain = NoOutput

\* Insight (GeneratedAt, which is time.Now(), is left out of the model)
Insight(title, content, type, confidence) ==
    [title |-> title, content |-> content, type |-> type, confidence |-> confidence]

\* fmt.Sprintf(format, args...): the format and the values it is applied to
Sprintf(format, args) == [format |-> format, args |-> args]

\* Duration.Round(time.Millisecond), halfway values rounding away from zero
RoundMillisecond(d) == ((d + Millisecond \div 2) \div Millisecond) * Millisecond

\* unhealthyURLs = append(unhealthyURLs, result.URL)
NoteUnhealthyFirst(unhealthyURLs, result) == <<result.url>> \o unhealthyURLs

NoteUnhealthy(unhealthyURLs, result) == Append(unhealthyURLs, result.url)

\* result.ResponseTime > 2*time.Second
IsSlowInclusive(result) == result.responseTime >= 2 * Second

IsSlow(result) == result.responseTime > 2 * Second

\* the loop over results of fallbackInsights and of generateInsights
RECURSIVE ScanResults(_)
ScanResults(results) ==
    IF results = <<>>
    THEN [unhealthy |-> 0, unhealthyURLs |-> <<>>, totalResponseTime |-> 0,
          slowEndpoints |-> 0]
    ELSE LET n == Len(results)
             acc == ScanResults(SubSeq(results, 1, n - 1))
             result == results[n]
         IN  [unhealthy |-> IF ~result.isHealthy THEN acc.unhealthy + 1
                            ELSE acc.unhealthy,
              unhealthyURLs |-> IF ~result.isHealthy
                                THEN NoteUnhealthy(acc.unhealthyURLs, result)
                                ELSE acc.unhealthyURLs,
              totalResponseTime |-> acc.totalResponseTime + result.responseTime,
              slowEndpoints |-> IF IsSlow(result) THEN acc.slowEndpoints + 1
                                ELSE acc.slowEndpoints]

\* unhealthy > 0
AlertDue(unhealthy) == unhealthy > 0

\* slowEndpoints > 0
WarningDue(slowEndpoints) == slowEndpoints > 0

\* avgResponseTime < 500*time.Millisecond && unhealthy == 0
SuccessDueIgnoringHealth(avgResponseTime, unhealthy) ==
    avgResponseTime < 500 * Millisecond

SuccessDue(avgResponseTime, unhealthy) ==
    avgResponseTime < 500 * Millisecond /\ unhealthy = 0

\* the order in which fallbackInsights appends to `insights`
AppendedInfoFirst(alert, warning, success, recommendation) ==
    recommendation \o alert \o warning \o success

Appended(alert, warning, success, recommendation) ==
    alert \o warning \o success \o recommendation

\* GPTOSSClient.fallbackInsights
fallbackInsights(results) ==
    LET scan == ScanResults(results)
    IN  IF Len(results) = 0
        THEN Panicked
        ELSE LET avgResponseTime == scan.totalResponseTime \div Len(results)
                 alert ==
                     IF AlertDue(scan.unhealthy)
                     THEN <<Insight("Service Disruption Detected",
                                    Sprintf("%d endpoint(s) are currently down: %s",
                                            <<scan.unhealthy, scan.unhealthyURLs>>),
                                    "alert", 100)>>
                     ELSE <<>>
                 warning ==
                     IF WarningDue(scan.slowEndpoints)
                     THEN <<Insight("Performance Issues",
                                    Sprintf("%d endpoint(s) showing elevated response times (>2s)",
                                            <<scan.slowEndpoints>>),
                                    "warning", 90)>>
                     ELSE <<>>
                 success ==
                     IF SuccessDue(avgResponseTime, scan.unhealthy)
                     THEN <<Insight("System Health Excellent",
                                    Sprintf("All endpoints healthy with optimal average response time of %v.",
                                            <<RoundMillisecond(avgResponseTime)>>),
                                    "success", 95)>>
                     ELSE <<>>
                 recommendation ==
                     <<Insight("Monitoring Recommendation",
                               Sprintf("Consider setting up automated alerts", <<>>),
                               "info", 80)>>
             IN  Returned(Appended(alert, warning, success, recommendation), <<>>)

\* cmd/web/main.go: WebServer.generateInsights, the web server's own rule-based
\* generator (AIInsight has no confidence)
generateInsights(results) ==
    LET scan == ScanResults(results)
    IN  IF Len(results) = 0
        THEN Panicked
        ELSE LET avgResponseTime == scan.totalResponseTime \div Len(results)
                 alert ==
                     IF scan.unhealthy > 0
                     THEN <<Insight("Service Disruption Detected",
                                    Sprintf("%d endpoint(s) are currently down. Immediate attention required for: %v",
                                            <<scan.unhealthy, scan.unhealthyURLs>>),
                                    "alert", 0)>>
                     ELSE <<>>
                 warning ==
                     IF scan.slowEndpoints > 0
                     THEN <<Insight("Performance Degradation Alert",
                                    Sprintf("%d endpoint(s) showing elevated response times (>2s)",
                                            <<scan.slowEndpoints>>),
                                    "warning", 0)>>
                     ELSE <<>>
                 success ==
                     IF avgResponseTime < 500 * Millisecond /\ scan.unhealthy = 0
                     THEN <<Insight("Optimal System Performance",
                                    Sprintf("All endpoints healthy with excellent average response time of %v.",
                                            <<RoundMillisecond(avgResponseTime)>>),
                                    "success", 0)>>
                     ELSE <<>>
                 recommendation ==
                     <<Insight("Proactive Recommendation",
                               Sprintf("Based on current patterns, consider implementing automated scaling", <<>>),
                               "info", 0)>>
                 pattern ==
                     IF avgResponseTime > 1 * Second
                     THEN <<Insight("Pattern Analysis",
                                    Sprintf("Average response time of %v suggests potential bottlenecks.",
                                            <<RoundMillisecond(avgResponseTime)>>),
                                    "info", 0)>>
                     ELSE <<>>
             IN  Returned(alert \o warning \o success \o recommendation \o pattern, <<>>)

\* cmd/web/main.go: WebServer.convertLegacyInsights
convertLegacyInsights(legacyInsights) ==
    [i \in 1..Len(legacyInsights) |->
        Insight(legacyInsights[i].title, legacyInsights[i].content,
                legacyInsights[i].type, 80)]

\* ws.convertLegacyInsights(ws.generateInsights(results))
legacyRuleBased(results) ==
    LET legacy == generateInsights(results)
    IN  IF legacy.panicked THEN Panicked
        ELSE Returned(convertLegacyInsights(legacy.insights), <<>>)

-----------------------------------------------------------------------------
(* The rule-based generators applied to a batch of results *)

MaxResults == 3

\* Probe outcomes on both sides of the generators' thresholds (500ms average,
\* 2s slow), healthy and unhealthy
FallbackOutcomes ==
    {Response(200, t) : t \in {100 * Millisecond, 500 * Millisecond - 1,
                               500 * Millisecond, 2 * Second, 2 * Second + 1}}
        \cup {Response(500, 100 * Millisecond), TransportFailure("timeout", 5 * Second)}

\* The batches are made of results of Check
FallbackPool == {Check(u, o) : u \in URLs, o \in FallbackOutcomes}

InitFallback ==
    /\ IdleCM
    /\ IdleWeb
    /\ IdleReg
    /\ IdleStore
    /\ insResults \in SeqsUpTo(FallbackPool, MaxResults)
    /\ insOp = "none"
    /\ insCall = NoCall
    /\ insOut = NoOutput
    /\ insAgain = NoOutput

\* c.fallbackInsights(insResults)
RunFallback ==
    /\ insOp = "none"
    /\ insOp' = "fallbackInsights"
    /\ insOut' = fallbackInsights(insResults)
    /\ UNCHANGED <<cmVars, wsVars, regVars, stVars, insResults, insCall, insAgain>>

\* ws.convertLegacyInsights(ws.generateInsights(insResults))
RunGenerate ==
    /\ insOp = "none"
    /\ insOp' = "generateInsights"
    /\ insOut' = legacyRuleBased(insResults)
    /\ UNCHANGED <<cmVars, wsVars, regVars, stVars, insResults, insCall, insAgain>>

NextFallback ==
    \/ RunFallback
    \/ RunGenerate

SpecFallback == InitFallback /\ [][NextFallback]_vars

\* the instants at which the fallback generator is called
RunTimes == {1, 2}

GeneratedAtAgesConfidence(insight, now) ==
    [title |-> insight.title, content |-> insight.content, type |-> insight.type,
     confidence |-> insight.confidence - now, generatedAt |-> now]

\* GeneratedAt: time.Now(), the field of Insight left out so far
GeneratedAt(insight, now) ==
    [title |-> insight.title, content |-> insight.content, type |-> insight.type,
     confidence |-> insight.confidence, generatedAt |-> now]

\* GPTOSSClient.fallbackInsights called at the instant `now`; the function
\* reads nothing but its argument and the clock
fallbackInsightsAt(results, now) ==
    LET out == fallbackInsights(results)
    IN  [out EXCEPT !.insights =
            [i \in 1..Len(out.insights) |-> GeneratedAt(out.insights[i], now)]]

\* c.fallbackInsights(insResults), at some instant
RunFallbackAt(now) ==
    /\ insOp = "none"
    /\ insOp' = "fallbackInsights once"
    /\ insOut' = fallbackInsightsAt(insResults, now)
    /\ UNCHANGED <<cmVars, wsVars, regVars, stVars, insResults, insCall, insAgain>>

\* c.fallbackInsights(insResults) once more, at some instant
RunFallbackAgain(now) ==
    /\ insOp = "fallbackInsights once"
    /\ insOp' = "fallbackInsights twice"
    /\ insAgain' = fallbackInsightsAt(insResults, now)
    /\ UNCHANGED <<cmVars, wsVars, regVars, stVars, insResults, insCall, insOut>>

NextRepeat ==
    \/ \E now \in RunTimes : RunFallbackAt(now)
    \/ \E now \in RunTimes : RunFallbackAgain(now)

SpecRepeat == InitFallback /\ [][NextRepeat]_vars

-----------------------------------------------------------------------------
(* internal/ai: AnalyzeEndpoints and the completion service *)

\* The text of a completion is modelled as a sequence of tokens: "[" and "]",
\* ",", a stretch of prose "txt", and JSON objects, named "o1", "o2", whose
\* fields RawInsight gives.
Brackets == {"[", "]"}

ObjectTokens == {"o1", "o2"}

Tokens == Brackets \cup {",", "txt"} \cup ObjectTokens

\* The fields of the JSON objects of a completion: one as the prompt asks
\* for, one with a type outside the enumeration and a confidence above 1.0
RawInsight(tok) ==
    IF tok = "o1"
    THEN [title |-> "t1", content |-> Sprintf("c1", <<>>), type |-> "alert",
          confidence |-> 90]
    ELSE [title |-> "t2", content |-> Sprintf("c2", <<>>), type |-> "critical",
          confidence |-> 150]

\* What the completion service does with a request: the request fails in
\* transport (or the context's deadline passes), it answers with a status
\* other than 200, with a body that is not the JSON of a
\* ChatCompletionResponse, with no choices, or with a first choice of the
\* given content.
ServiceFailures ==
    {[kind |-> k, content |-> <<>>] :
        k \in {"request failed", "API error", "failed to decode response",
               "no choices in response"}}

Completion(content) == [kind |-> "ok", content |-> content]

\* GPTOSSClient.complete: the text and the error it returns
complete(call) ==
    IF call.kind = "ok"
    THEN [text |-> call.content, err |-> <<>>]
    ELSE [text |-> <<>>, err |-> <<call.kind>>]

\* strings.Index(response, "["): the first position of tok, 0 when absent
\* (positions are 1-based here; the code's -1 is 0)
RECURSIVE Index(_, _)
Index(response, tok) ==
    IF response = <<>> THEN 0
    ELSE IF Head(response) = tok THEN 1
    ELSE LET rest == Index(Tail(response), tok)
         IN  IF rest = 0 THEN 0 ELSE rest + 1

\* strings.LastIndex(response, "]")
RECURSIVE LastIndex(_, _)
LastIndex(response, tok) ==
    IF response = <<>> THEN 0
    ELSE IF response[Len(response)] = tok THEN Len(response)
    ELSE LastIndex(SubSeq(response, 1, Len(response) - 1), tok)

\* json.Unmarshal of jsonStr into a slice of {title, content, type,
\* confidence} succeeds: jsonStr is "[", objects separated by ",", "]"
UnmarshalOk(jsonStr) ==
    LET inner == SubSeq(jsonStr, 2, Len(jsonStr) - 1)
    IN  /\ Len(jsonStr) >= 2
        /\ jsonStr[1] = "["
        /\ jsonStr[Len(jsonStr)] = "]"
        /\ \/ inner = <<>>
           \/ /\ Len(inner) % 2 = 1
              /\ \A i \in 1..Len(inner) :
                    IF i % 2 = 1 THEN inner[i] \in ObjectTokens ELSE inner[i] = ","

\* the decoded rawInsights of a jsonStr that unmarshals
Unmarshal(jsonStr) ==
    LET inner == SubSeq(jsonStr, 2, Len(jsonStr) - 1)
    IN  [i \in 1..((Len(inner) + 1) \div 2) |-> RawInsight(inner[2 * i - 1])]

ValidTypes == {"alert", "warning", "info", "success"}

validateTypeUnchecked(t) == t

\* GPTOSSClient.validateType
validateType(t) == IF t \in ValidTypes THEN t ELSE "info"

\* GPTOSSClient.parseInsights (nil is the empty sequence)
parseInsights(response) ==
    LET start == Index(response, "[")
        end == LastIndex(response, "]")
    IN  IF start = 0 \/ end = 0 \/ start >= end
        THEN <<>>
        ELSE LET jsonStr == SubSeq(response, start, end)
             IN  IF ~UnmarshalOk(jsonStr)
                 THEN <<>>
                 ELSE LET rawInsights == Unmarshal(jsonStr)
                      IN  [i \in 1..Len(rawInsights) |->
                              Insight(rawInsights[i].title, rawInsights[i].content,
                                      validateType(rawInsights[i].type),
                                      rawInsights[i].confidence)]

\* fmt.Errorf("AI analysis failed, using fallback: %w", err)
AnalysisFailed(err) == <<"AI analysis failed, using fallback">> \o err

\* GPTOSSClient.AnalyzeEndpoints
AnalyzeEndpoints(results, call) ==
    LET completed == complete(call)
    IN  IF completed.err # <<>>
        THEN LET fallback == fallbackInsights(results)
             IN  IF fallback.panicked THEN Panicked
                 ELSE Returned(fallback.insights, AnalysisFailed(completed.err))
        ELSE LET insights == parseInsights(completed.text)
             IN  IF Len(insights) = 0
                 THEN fallbackInsights(results)
                 ELSE Returned(insights, <<>>)

MaxBatch == 1

MaxTextLen == 5

\* A batch for AnalyzeEndpoints: a healthy and a failed probe
AnalyzePool ==
    {Check("https://a", Response(200, 100 * Millisecond)),
     Check("https://b", TransportFailure("timeout", 5 * Second))}

ServiceCalls ==
    ServiceFailures \cup {Completion(text) : text \in SeqsUpTo(Tokens, MaxTextLen)}

InitAnalyze ==
    /\ IdleCM
    /\ IdleWeb
    /\ IdleReg
    /\ IdleStore
    /\ insResults \in SeqsUpTo(AnalyzePool, MaxBatch)
    /\ insOp = "none"
    /\ insCall = NoCall
    /\ insOut = NoOutput
    /\ insAgain = NoOutput

\* c.AnalyzeEndpoints(ctx, insResults), the completion service behaving as `call`
RunAnalyze ==
    /\ insOp = "none"
    /\ \E call \in ServiceCalls :
          /\ insCall' = call
          /\ insOut' = AnalyzeEndpoints(insResults, call)
    /\ insOp' = "AnalyzeEndpoints"
    /\ UNCHANGED <<cmVars, wsVars, regVars, stVars, insResults, insAgain>>

NextAnalyze == RunAnalyze

SpecAnalyze == InitAnalyze /\ [][NextAnalyze]_vars

-----------------------------------------------------------------------------
(* cmd/web/main.go: the web server *)

\* A string of a request is modelled as the sequence of its pieces: " " is
\* white space, "http://" and "https://" are the scheme prefixes, any other
\* piece is text without white space.  "" is the empty sequence.
WebURLs == {<<"https://", "a">>, <<"http://", "b">>}

\* ws.urls after NewWebServer (the code lists four urls; the model two)
DefaultURLs == <<<<"https://", "a">>, <<"http://", "b">>>>

\* the url fields of the request bodies of POST and DELETE
RawURLs ==
    WebURLs \cup {<<>>, <<" ">>, <<" ", "https://", "a", " ">>, <<"ftp://", "b">>, <<"a">>}

\* strings.TrimSpace
RECURSIVE TrimLeft(_)
TrimLeft(str) ==
    IF str # <<>> /\ Head(str) = " " THEN TrimLeft(Tail(str)) ELSE str

RECURSIVE TrimRight(_)
TrimRight(str) ==
    IF str # <<>> /\ str[Len(str)] = " "
    THEN TrimRight(SubSeq(str, 1, Len(str) - 1))
    ELSE str

TrimSpace(str) == TrimRight(TrimLeft(str))

\* strings.HasPrefix(str, prefix), for a prefix that is one piece
HasPrefix(str, prefix) == str # <<>> /\ Head(str) = prefix

\* all orders of 1..n
Orders(n) == {p \in [1..n -> 1..n] : \A i, j \in 1..n : i # j => p[i] # p[j]}

\* Outcomes of the probes of a web request: a fast healthy answer, a timeout
WebOutcomes == {Response(200, 100 * Millisecond), TransportFailure("timeout", 5 * Second)}

\* What ws.checker.CheckMultiple(urls) can return: one result of Check per
\* url, in the order in which the probes completed
CheckMultipleReturns(urls) ==
    {[i \in 1..Len(urls) |-> Check(urls[p[i]], o[p[i]])] :
        p \in Orders(Len(urls)), o \in [1..Len(urls) -> WebOutcomes]}

\* What the completion service does during a web request
WebServiceCalls ==
    {[kind |-> "request failed", content |-> <<>>],
     Completion(<<"txt">>),
     Completion(<<"txt", "[", "o1", ",", "o2", "]">>)}

\* the statuses that handleStatus builds from the results
EndpointStatuses(results) ==
    [i \in 1..Len(results) |->
        [url |-> results[i].url, isHealthy |-> results[i].isHealthy,
         statusCode |-> results[i].statusCode,
         responseTime |-> results[i].responseTime, error |-> results[i].error]]

\* the insights that handleAIInsights chooses for the results
ChooseInsights(aiEnabled, results, call) ==
    IF aiEnabled
    THEN LET ai == AnalyzeEndpoints(results, call)
         IN  IF ai.panicked THEN Panicked
             ELSE IF ai.err # <<>> THEN legacyRuleBased(results)
             ELSE Returned(ai.insights, <<>>)
    ELSE legacyRuleBased(results)

\* the GET requests the server handles at the same time
Requests == {"g1"}

NoRequest == [kind |-> "none", pc |-> "idle", urls |-> <<>>, status |-> 0, body |-> <<>>]

\* what a POST or DELETE request was answered
Answered(method, raw, status) == [method |-> method, url |-> raw, status |-> status]

InitWeb ==
    /\ IdleCM
    /\ IdleIns
    /\ IdleReg
    /\ IdleStore
    /\ wsUrls = DefaultURLs
    /\ wsAiEnabled \in BOOLEAN
    /\ wsReq = [r \in Requests |-> NoRequest]
    /\ wsLast = Answered("none", <<>>, 0)
    /\ wsReaders = {}

\* a GET /api/status or GET /api/insights request arrives
WebReceive(r) ==
    /\ wsReq[r].pc \in {"idle", "done"}
    /\ \E kind \in {"status", "insights"} :
          wsReq' = [wsReq EXCEPT ![r] = [NoRequest EXCEPT !.kind = kind, !.pc = "received"]]
    /\ UNCHANGED <<cmVars, insVars, regVars, stVars, wsUrls, wsAiEnabled, wsLast, wsReaders>>

\* ws.urlsMutex.RLock()
RLock(readers, r) == readers \cup {r}

RUnlockDeferred(readers, r) == readers

\* ws.urlsMutex.RUnlock()
RUnlock(readers, r) == readers \ {r}

\* RLock; urls := copy of ws.urls; RUnlock.  No writer holds the mutex
\* between two steps, so RLock never waits.
WebSnapshot(r) ==
    /\ wsReq[r].pc = "received"
    /\ wsReq' = [wsReq EXCEPT ![r].pc = "snapshot", ![r].urls = wsUrls]
    /\ wsReaders' = RUnlock(RLock(wsReaders, r), r)
    /\ UNCHANGED <<cmVars, insVars, regVars, stVars, wsUrls, wsAiEnabled, wsLast>>

SnapshotOfLive(req) == wsUrls

\* the local `urls` that the handler passes to CheckMultiple
SnapshotOf(req) == req.urls

\* handleStatus after the snapshot: CheckMultiple, encode the statuses
WebStatusRespond(r) ==
    /\ wsReq[r].pc = "snapshot"
    /\ wsReq[r].kind = "status"
    /\ \E results \in CheckMultipleReturns(SnapshotOf(wsReq[r])) :
          wsReq' = [wsReq EXCEPT ![r].pc = "done", ![r].status = 200,
                                 ![r].body = EndpointStatuses(results)]
    /\ UNCHANGED <<cmVars, insVars, regVars, stVars, wsUrls, wsAiEnabled, wsLast, wsReaders>>

\* handleAIInsights after the snapshot: CheckMultiple, the insights, encode.
\* net/http recovers from a handler's panic and aborts the connection: the
\* client gets no response, and the status stays 0.
WebInsightsRespond(r) ==
    /\ wsReq[r].pc = "snapshot"
    /\ wsReq[r].kind = "insights"
    /\ \E results \in CheckMultipleReturns(SnapshotOf(wsReq[r])), call \in WebServiceCalls :
          LET chosen == ChooseInsights(wsAiEnabled, results, call)
          IN  wsReq' = [wsReq EXCEPT
                           ![r].pc = "done",
                           ![r].status = IF chosen.panicked THEN 0 ELSE 200,
                           ![r].body = chosen.insights]
    /\ UNCHANGED <<cmVars, insVars, regVars, stVars, wsUrls, wsAiEnabled, wsLast, wsReaders>>

\* the position of url in urls, 0 when absent
PositionOf(urls, url) ==
    IF \E i \in 1..Len(urls) : urls[i] = url
    THEN CHOOSE i \in 1..Len(urls) : urls[i] = url /\ \A j \in 1..(i - 1) : urls[j] # url
    ELSE 0

AlreadyMonitoredFirstOnly(urls, url) == urls # <<>> /\ urls[1] = url

AlreadyMonitoredNever(urls, url) == FALSE

\* for _, existingURL := range ws.urls { if existingURL == url {
AlreadyMonitored(urls, url) == \E i \in 1..Len(urls) : urls[i] = url

RemoveAtSwapLast(urls, i) ==
    IF i = Len(urls) THEN SubSeq(urls, 1, i - 1)
    ELSE [SubSeq(urls, 1, Len(urls) - 1) EXCEPT ![i] = urls[Len(urls)]]

RemoveAtKeepsAll(urls, i) == urls

\* append(ws.urls[:i], ws.urls[i+1:]...), for the 1-based position i
RemoveAt(urls, i) == SubSeq(urls, 1, i - 1) \o SubSeq(urls, i + 1, Len(urls))

\* handleEndpoints, POST.  The check for a duplicate and the append are
\* one critical section under ws.urlsMutex.Lock(), which waits until no
\* reader holds the mutex.
WebPost(validJSON, raw) ==
    LET url == TrimSpace(raw)
    IN  /\ wsReaders = {}
        /\ \/ /\ ~validJSON
              /\ wsLast' = Answered("POST", raw, 400)
              /\ UNCHANGED wsUrls
           \/ /\ validJSON
              /\ url = <<>>
              /\ wsLast' = Answered("POST", raw, 400)
              /\ UNCHANGED wsUrls
           \/ /\ validJSON
              /\ url # <<>>
              /\ ~HasPrefix(url, "http://") /\ ~HasPrefix(url, "https://")
              /\ wsLast' = Answered("POST", raw, 400)
              /\ UNCHANGED wsUrls
           \/ /\ validJSON
              /\ url # <<>>
              /\ HasPrefix(url, "http://") \/ HasPrefix(url, "https://")
              /\ AlreadyMonitored(wsUrls, url)
              /\ wsLast' = Answered("POST", raw, 409)
              /\ UNCHANGED wsUrls
           \/ /\ validJSON
              /\ url # <<>>
              /\ HasPrefix(url, "http://") \/ HasPrefix(url, "https://")
              /\ ~AlreadyMonitored(wsUrls, url)
              /\ wsUrls' = Append(wsUrls, url)
              /\ wsLast' = Answered("POST", raw, 201)
        /\ UNCHANGED <<cmVars, insVars, regVars, stVars, wsAiEnabled, wsReq, wsReaders>>

\* handleEndpoints, DELETE
WebDelete(validJSON, raw) ==
    LET url == TrimSpace(raw)
        i == PositionOf(wsUrls, url)
    IN  /\ wsReaders = {}
        /\ \/ /\ ~validJSON
              /\ wsLast' = Answered("DELETE", raw, 400)
              /\ UNCHANGED wsUrls
           \/ /\ validJSON
              /\ url = <<>>
              /\ wsLast' = Answered("DELETE", raw, 400)
              /\ UNCHANGED wsUrls
           \/ /\ validJSON
              /\ url # <<>>
              /\ i = 0
              /\ wsLast' = Answered("DELETE", raw, 404)
              /\ UNCHANGED wsUrls
           \/ /\ validJSON
              /\ url # <<>>
              /\ i # 0
              /\ wsUrls' = RemoveAt(wsUrls, i)
              /\ wsLast' = Answered("DELETE", raw, 200)
        /\ UNCHANGED <<cmVars, insVars, regVars, stVars, wsAiEnabled, wsReq, wsReaders>>

NextWeb ==
    \/ \E r \in Requests : WebReceive(r)
    \/ \E r \in Requests : WebSnapshot(r)
    \/ \E r \in Requests : WebStatusRespond(r)
    \/ \E r \in Requests : WebInsightsRespond(r)
    \/ \E validJSON \in BOOLEAN, raw \in RawURLs : WebPost(validJSON, raw)
    \/ \E validJSON \in BOOLEAN, raw \in RawURLs : WebDelete(validJSON, raw)

SpecWeb == InitWeb /\ [][NextWeb]_vars

\* ws.urls after NewWebServer, with three of the code's four urls
ListedURLs == <<<<"https://", "a">>, <<"http://", "b">>, <<"https://", "c">>>>

\* the url fields of the request bodies of DELETE
RemovalURLs ==
    {ListedURLs[i] : i \in 1..Len(ListedURLs)} \cup {<<>>, <<" ", "http://", "b", " ">>}

InitRemoval ==
    /\ IdleCM
    /\ IdleIns
    /\ IdleReg
    /\ IdleStore
    /\ wsUrls = ListedURLs
    /\ wsAiEnabled = FALSE
    /\ wsReq = [r \in Requests |-> NoRequest]
    /\ wsLast = Answered("none", <<>>, 0)
    /\ wsReaders = {}

\* removals from the default list while GET requests are served
NextRemoval ==
    \/ \E r \in Requests : WebReceive(r)
    \/ \E r \in Requests : WebSnapshot(r)
    \/ \E r \in Requests : WebStatusRespond(r)
    \/ \E r \in Requests : WebInsightsRespond(r)
    \/ \E validJSON \in BOOLEAN, raw \in RemovalURLs : WebDelete(validJSON, raw)

SpecRemoval == InitRemoval /\ [][NextRemoval]_vars

-----------------------------------------------------------------------------
(* HTTPChecker.CheckMultiple, step by step *)

\* what a goroutine of CheckMultiple holds: its position, what Get came back
\* with, and the CheckResult that Check made of it
NoTask == [pc |-> "none", got |-> Response(0, 0), res |-> ZeroResult]

\* results := make([]CheckResult, len(urls)); done := make(chan CheckResult, len(urls))
InitCM ==
    /\ IdleIns
    /\ IdleWeb
    /\ IdleReg
    /\ IdleStore
    /\ cmUrls \in SeqsUpTo(URLs, MaxUrls)
    /\ cmPc = "launching"
    /\ cmLaunched = 0
    /\ cmTask = [k \in 1..Len(cmUrls) |-> NoTask]
    /\ cmDone = <<>>
    /\ cmResults = [k \in 1..Len(cmUrls) |-> ZeroResult]
    /\ cmI = 0

DoneCapOneShort == Len(cmUrls) - 1

\* cap(done)
DoneCap == Len(cmUrls)

\* for _, url := range urls { go func(u string) {...}(url) }
CMLaunch ==
    /\ cmPc = "launching"
    /\ cmLaunched < Len(cmUrls)
    /\ cmLaunched' = cmLaunched + 1
    /\ cmTask' = [cmTask EXCEPT ![cmLaunched + 1].pc = "started"]
    /\ UNCHANGED <<cmUrls, cmPc, cmDone, cmResults, cmI, insVars, wsVars, regVars, stVars>>

\* the launching loop is over, the collecting loop starts with i := 0
CMStartCollect ==
    /\ cmPc = "launching"
    /\ cmLaunched = Len(cmUrls)
    /\ cmPc' = "collecting"
    /\ cmI' = 0
    /\ UNCHANGED <<cmUrls, cmLaunched, cmTask, cmDone, cmResults, insVars, wsVars, regVars, stVars>>

\* goroutine k evaluates c.Check(u)
CMTaskCheck(k) ==
    /\ k \in 1..Len(cmUrls)
    /\ cmTask[k].pc = "started"
    /\ \E o \in CMOutcomes :
          cmTask' = [cmTask EXCEPT ![k] = [pc |-> "checked", got |-> o,
                                           res |-> Check(cmUrls[k], o)]]
    /\ UNCHANGED <<cmUrls, cmPc, cmLaunched, cmDone, cmResults, cmI, insVars, wsVars, regVars, stVars>>

\* goroutine k performs done <- result; a send blocks while the buffer is full,
\* or, on an unbuffered channel, until a receiver is ready
CMTaskSend(k) ==
    /\ k \in 1..Len(cmUrls)
    /\ cmTask[k].pc = "checked"
    /\ Len(cmDone) < DoneCap
    /\ cmDone' = Append(cmDone, cmTask[k].res)
    /\ cmTask' = [cmTask EXCEPT ![k].pc = "sent"]
    /\ UNCHANGED <<cmUrls, cmPc, cmLaunched, cmResults, cmI, insVars, wsVars, regVars, stVars>>

\* the slot of `results` that the i-th receive is stored in (1-based)
CollectSlot(i) == i + 1

\* the collecting loop's condition i < len(urls)
CollectMoreEarlyExit == cmI < Len(cmUrls) - 1

CollectMore == cmI < Len(cmUrls)

\* results[i] = <-done; i++
CMCollect ==
    /\ cmPc = "collecting"
    /\ CollectMore
    /\ cmDone # <<>>
    /\ cmResults' = [cmResults EXCEPT ![CollectSlot(cmI)] = Head(cmDone)]
    /\ cmDone' = Tail(cmDone)
    /\ cmI' = cmI + 1
    /\ UNCHANGED <<cmUrls, cmPc, cmLaunched, cmTask, insVars, wsVars, regVars, stVars>>

\* return results
CMReturn ==
    /\ cmPc = "collecting"
    /\ ~CollectMore
    /\ cmPc' = "returned"
    /\ UNCHANGED <<cmUrls, cmLaunched, cmTask, cmDone, cmResults, cmI, insVars, wsVars, regVars, stVars>>

NextCM ==
    \/ CMLaunch
    \/ CMStartCollect
    \/ \E k \in 1..Len(cmUrls) : CMTaskCheck(k)
    \/ \E k \in 1..Len(cmUrls) : CMTaskSend(k)
    \/ CMCollect
    \/ CMReturn

SpecCM == InitCM /\ [][NextCM]_vars

\* The Go scheduler runs every runnable goroutine eventually, and every
\* individual Check returns (the http.Client has a timeout).
FairSpecCM ==
    /\ InitCM
    /\ [][NextCM]_vars
    /\ WF_vars(CMLaunch)
    /\ WF_vars(CMStartCollect)
    /\ \A k \in 1..MaxUrls : WF_vars(CMTaskCheck(k))
    /\ \A k \in 1..MaxUrls : WF_vars(CMTaskSend(k))
    /\ WF_vars(CMCollect)
    /\ WF_vars(CMReturn)

\* the goroutines whose Check has returned
Checked == {k \in 1..Len(cmUrls) : cmTask[k].pc \in {"checked", "sent"}}

\* how many times x occurs in sequence s
Occurrences(s, x) == Cardinality({i \in 1..Len(s) : s[i] = x})

\* the urls of a sequence of results
UrlsOf(results) == [i \in 1..Len(results) |-> results[i].url]

-----------------------------------------------------------------------------
(* The endpoint registry and its polling loops (internal/grpc/server.go)   *)
(*                                                                         *)
(* AddEndpoint and StopMonitoring run under endpointsMutex from their      *)
(* first statement to their return, so each is one step.  A polling loop   *)
(* takes no lock; each receive, call and send of its body is a step of     *)
(* its own.  A stop channel is identified with the loop it was made for:   *)
(* channel k is the one the k-th startMonitoring call made, and 0 is the   *)
(* nil channel.                                                            *)

MaxTime == 1

MaxAdds == 2

MaxTicks == 2

MaxReceives == 1

\* make(chan *checker.CheckResult, 100)
StreamCapacity == 100

\* arguments of AddEndpoint
RegIntervals == {5}

RegTimeouts == {3}

\* what a probe of a polling loop meets; the results of different loops
\* differ by their url
RegOutcomes == {Response(200, 20 * Millisecond)}

\* what SaveResult returns: nil, or the error of db.Exec
SaveOutcomes == {<<>>, <<"exec failed">>}

\* fmt.Sprintf("endpoint_%d", time.Now().Unix())
EndpointID(now) == Sprintf("endpoint_%d", <<now>>)

EndpointIDs == {EndpointID(t) : t \in 0..MaxTime}

MonitorEndpoint(id, url, intervalSec, timeoutSec, enabled) ==
    [ID |-> id, URL |-> url, IntervalSeconds |-> intervalSec,
     TimeoutSeconds |-> timeoutSec, Enabled |-> enabled]

\* m[k] = v
MapPut(m, k, v) == [x \in DOMAIN m \cup {k} |-> IF x = k THEN v ELSE m[x]]

\* delete(m, k)
MapDelete(m, k) == [x \in DOMAIN m \ {k} |-> m[x]]

\* MonitorServer.ListEndpoints: the values of the map, in no particular order
ListEndpoints == {regEndpoints[id] : id \in DOMAIN regEndpoints}

\* the goroutine of startMonitoring before its first statement; `stopped`
\* records that StopMonitoring was called with the loop's id after it
\* started, `result` is the local of the tick in progress, `saveErr` what
\* SaveResult returned in the loop's latest tick
NewLoop(endpoint) ==
    [endpoint |-> endpoint, pc |-> "start", closed |-> FALSE, stopped |-> FALSE,
     result |-> ZeroResult, saveErr |-> <<>>]

\* results left in the stream by an endpoint that was polled and stopped
\* before the run, with no consumer attached
EarlierResult == Check("https://a", Response(200, 20 * Millisecond))

\* NewMonitorServer(nil)
InitRegistry ==
    /\ IdleCM
    /\ IdleIns
    /\ IdleWeb
    /\ IdleReg
    /\ IdleStore

\* NewMonitorServer with or without a store; the stream is empty, or it
\* still holds what earlier polling left in it
InitPolling ==
    /\ IdleCM
    /\ IdleIns
    /\ IdleWeb
    /\ regNow = 0
    /\ regEndpoints = EmptyMap
    /\ regStopChannels = EmptyMap
    /\ regLoops = <<>>
    /\ regStream \in {<<>>, [i \in 1..(StreamCapacity - 1) |-> EarlierResult]}
    /\ regHasStore \in BOOLEAN
    /\ regTicks = 0
    /\ regReceived = 0
    /\ regPanicked = FALSE
    /\ regLast = NoRegCall
    /\ IdleStore

\* time passes; only AddEndpoint reads the clock, so a second that no
\* AddEndpoint call can fall into is left out
RegClock ==
    /\ ~regPanicked
    /\ regNow < MaxTime
    /\ Len(regLoops) < MaxAdds
    /\ regNow' = regNow + 1
    /\ UNCHANGED <<cmVars, insVars, wsVars, stVars, regEndpoints, regStopChannels, regLoops,
                   regStream, regHasStore, regTicks, regReceived, regPanicked, regLast>>

startMonitoringUnregistered(endpoint) ==
    /\ regStopChannels' = regStopChannels
    /\ regLoops' = Append(regLoops, NewLoop(endpoint))

\* MonitorServer.startMonitoring
startMonitoring(endpoint) ==
    LET stopChan == Len(regLoops) + 1
    IN  /\ regStopChannels' = MapPut(regStopChannels, endpoint.ID, stopChan)
        /\ regLoops' = Append(regLoops, NewLoop(endpoint))

\* MonitorServer.AddEndpoint
AddEndpoint(url, intervalSec, timeoutSec) ==
    /\ ~regPanicked
    /\ Len(regLoops) < MaxAdds
    /\ LET endpointID == EndpointID(regNow)
           endpoint == MonitorEndpoint(endpointID, url, intervalSec, timeoutSec, TRUE)
       IN  /\ regEndpoints' = MapPut(regEndpoints, endpointID, endpoint)
           /\ startMonitoring(endpoint)
    /\ UNCHANGED <<cmVars, insVars, wsVars, stVars, regNow, regStream, regHasStore,
                   regTicks, regReceived, regPanicked, regLast>>

RegisteredAlways(endpointID) == TRUE

\* stopChan, exists := s.stopChannels[endpointID]
Registered(endpointID) == endpointID \in DOMAIN regStopChannels

\* MonitorServer.StopMonitoring; close panics on a nil or a closed channel
StopMonitoring(endpointID) ==
    /\ ~regPanicked
    /\ LET exists == Registered(endpointID)
           stopChan == IF endpointID \in DOMAIN regStopChannels
                       THEN regStopChannels[endpointID] ELSE 0
       IN  /\ regLast' = IF exists THEN "stopped" ELSE "absent"
           /\ IF ~exists
              THEN UNCHANGED <<regEndpoints, regStopChannels, regLoops, regPanicked>>
              ELSE IF stopChan = 0 \/ regLoops[stopChan].closed
              THEN /\ regPanicked' = TRUE
                   /\ UNCHANGED <<regEndpoints, regStopChannels, regLoops>>
              ELSE /\ regLoops' =
                        [k \in 1..Len(regLoops) |->
                            [regLoops[k] EXCEPT
                                !.closed = @ \/ k = stopChan,
                                !.stopped = @ \/ regLoops[k].endpoint.ID = endpointID]]
                   /\ regStopChannels' = MapDelete(regStopChannels, endpointID)
                   /\ regEndpoints' = MapDelete(regEndpoints, endpointID)
                   /\ UNCHANGED regPanicked
    /\ UNCHANGED <<cmVars, insVars, wsVars, stVars, regNow, regStream, regHasStore,
                   regTicks, regReceived>>

\* time.NewTicker(time.Duration(endpoint.IntervalSeconds) * time.Second),
\* which panics on a period that is not positive
LoopStart(k) ==
    /\ ~regPanicked
    /\ k \in 1..Len(regLoops)
    /\ regLoops[k].pc = "start"
    /\ IF regLoops[k].endpoint.IntervalSeconds * Second <= 0
       THEN /\ regLoops' = [regLoops EXCEPT ![k].pc = "panicked"]
            /\ regPanicked' = TRUE
       ELSE /\ regLoops' = [regLoops EXCEPT ![k].pc = "select"]
            /\ UNCHANGED regPanicked
    /\ UNCHANGED <<cmVars, insVars, wsVars, stVars, regNow, regEndpoints, regStopChannels,
                   regStream, regHasStore, regTicks, regReceived, regLast>>

\* case <-ticker.C: if endpoint.Enabled
LoopTick(k) ==
    /\ ~regPanicked
    /\ k \in 1..Len(regLoops)
    /\ regLoops[k].pc = "select"
    /\ regTicks < MaxTicks
    /\ regTicks' = regTicks + 1
    /\ regLoops' = [regLoops EXCEPT
                       ![k].pc = IF regLoops[k].endpoint.Enabled THEN "checking" ELSE "select"]
    /\ UNCHANGED <<cmVars, insVars, wsVars, stVars, regNow, regEndpoints, regStopChannels,
                   regStream, regHasStore, regReceived, regPanicked, regLast>>

AfterSaveGivesUp(err) == IF err = <<>> THEN "publishing" ELSE "exited"

\* where the loop goes once SaveResult has returned: its error is logged
AfterSave(err) == "publishing"

\* result := endpointChecker.Check(endpoint.URL), then
\* if s.store != nil { if err := s.store.SaveResult(result); err != nil { log } }
\* Both calls touch only the loop's own variables, so they are one step.
LoopCheck(k, o, err) ==
    /\ ~regPanicked
    /\ k \in 1..Len(regLoops)
    /\ regLoops[k].pc = "checking"
    /\ err \in (IF regHasStore THEN SaveOutcomes ELSE {<<>>})
    /\ regLoops' = [regLoops EXCEPT ![k].result = Check(regLoops[k].endpoint.URL, o),
                                    ![k].saveErr = err,
                                    ![k].pc = AfterSave(err)]
    /\ UNCHANGED <<cmVars, insVars, wsVars, stVars, regNow, regEndpoints, regStopChannels,
                   regStream, regHasStore, regTicks, regReceived, regPanicked, regLast>>

OfferAlwaysSends(stream, result) == Append(stream, result)

\* select { case s.resultStream <- &result: default: }
Offer(stream, result) ==
    IF Len(stream) < StreamCapacity THEN Append(stream, result) ELSE stream

LoopPublish(k) ==
    /\ ~regPanicked
    /\ k \in 1..Len(regLoops)
    /\ regLoops[k].pc = "publishing"
    /\ regStream' = Offer(regStream, regLoops[k].result)
    /\ regLoops' = [regLoops EXCEPT ![k].pc = "select", ![k].result = ZeroResult]
    /\ UNCHANGED <<cmVars, insVars, wsVars, stVars, regNow, regEndpoints, regStopChannels,
                   regHasStore, regTicks, regReceived, regPanicked, regLast>>

\* case <-stopChan: return
LoopStop(k) ==
    /\ ~regPanicked
    /\ k \in 1..Len(regLoops)
    /\ regLoops[k].pc = "select"
    /\ regLoops[k].closed
    /\ regLoops' = [regLoops EXCEPT ![k].pc = "exited"]
    /\ UNCHANGED <<cmVars, insVars, wsVars, stVars, regNow, regEndpoints, regStopChannels,
                   regStream, regHasStore, regTicks, regReceived, regPanicked, regLast>>

\* the consumer of GetResultStream() takes a result
StreamReceive ==
    /\ ~regPanicked
    /\ regStream # <<>>
    /\ regReceived < MaxReceives
    /\ regStream' = Tail(regStream)
    /\ regReceived' = regReceived + 1
    /\ UNCHANGED <<cmVars, insVars, wsVars, stVars, regNow, regEndpoints, regStopChannels,
                   regLoops, regHasStore, regTicks, regPanicked, regLast>>

\* the registry's operations beside the polling loops they start and stop
NextRegistry ==
    \/ RegClock
    \/ \E url \in URLs, intervalSec \in RegIntervals, timeoutSec \in RegTimeouts :
          AddEndpoint(url, intervalSec, timeoutSec)
    \/ \E endpointID \in EndpointIDs : StopMonitoring(endpointID)
    \/ \E k \in 1..MaxAdds : LoopStart(k)
    \/ \E k \in 1..MaxAdds : LoopTick(k)
    \/ \E k \in 1..MaxAdds, o \in RegOutcomes, err \in SaveOutcomes : LoopCheck(k, o, err)
    \/ \E k \in 1..MaxAdds : LoopPublish(k)
    \/ \E k \in 1..MaxAdds : LoopStop(k)

SpecRegistry == InitRegistry /\ [][NextRegistry]_vars

\* polling loops of endpoints that stay registered, and the stream's consumer
NextPolling ==
    \/ RegClock
    \/ \E url \in URLs, intervalSec \in RegIntervals, timeoutSec \in RegTimeouts :
          AddEndpoint(url, intervalSec, timeoutSec)
    \/ \E k \in 1..MaxAdds : LoopStart(k)
    \/ \E k \in 1..MaxAdds : LoopTick(k)
    \/ \E k \in 1..MaxAdds, o \in RegOutcomes, err \in SaveOutcomes : LoopCheck(k, o, err)
    \/ \E k \in 1..MaxAdds : LoopPublish(k)
    \/ StreamReceive

SpecPolling == InitPolling /\ [][NextPolling]_vars

\* intervalSec is an int32 that AddEndpoint stores as it is given
AnyIntervals == {-1, 0, 5}

\* additions with any interval, and the loops they start
NextIntervals ==
    \/ RegClock
    \/ \E url \in URLs, intervalSec \in AnyIntervals, timeoutSec \in RegTimeouts :
          AddEndpoint(url, intervalSec, timeoutSec)
    \/ \E k \in 1..MaxAdds : LoopStart(k)
    \/ \E k \in 1..MaxAdds : LoopTick(k)
    \/ \E k \in 1..MaxAdds, o \in RegOutcomes, err \in SaveOutcomes : LoopCheck(k, o, err)
    \/ \E k \in 1..MaxAdds : LoopPublish(k)

SpecIntervals == InitRegistry /\ [][NextIntervals]_vars

-----------------------------------------------------------------------------
(* The result store (internal/storage/postgres.go) and the query tool      *)
(* (cmd/query/main.go)                                                     *)
(*                                                                         *)
(* Every method of the store is one step: no claim is about two of them    *)
(* overlapping.  A statement sent through s.db runs in a transaction of    *)
(* its own and is committed when Exec returns; only statements sent        *)
(* through a sql.Tx belong to that transaction.                            *)

MaxRows == 3

MaxSaveBatch == 2

\* a CheckResult with its CheckedAt, which the checker's model leaves out
Stamped(result, checkedAt) ==
    [url |-> result.url, statusCode |-> result.statusCode,
     responseTime |-> result.responseTime, isHealthy |-> result.isHealthy,
     error |-> result.error, checkedAt |-> checkedAt]

\* results handed to the store: response times that are and are not whole
\* milliseconds, two results of one url checked at the same instant
StoreResults ==
    { Stamped(Check("https://a", Response(200, Millisecond + Millisecond \div 2)), 1),
      Stamped(Check("https://a", TransportFailure("timeout", 2 * Millisecond + 499)), 2),
      Stamped(Check("https://a", Response(500, 3 * Millisecond)), 2),
      Stamped(Check("https://b", Response(200, Millisecond - 1)), 1) }

\* Duration.Milliseconds(): the whole milliseconds of a duration
Milliseconds(d) == d \div Millisecond

\* the row INSERTed by SaveResult; error_message is NULL (<<>>) or a text;
\* `saved` is not a column: it remembers the result the row was made from
InsertRow(result) ==
    [url |-> result.url,
     status_code |-> result.statusCode,
     response_time_ms |-> Milliseconds(result.responseTime),
     is_healthy |-> result.isHealthy,
     error_message |-> IF result.error # "" THEN <<result.error>> ELSE <<>>,
     checked_at |-> result.checkedAt,
     saved |-> result]

\* rows.Scan and the conversions after it in GetRecentResults
ScanRow(row) ==
    [url |-> row.url, statusCode |-> row.status_code,
     responseTime |-> row.response_time_ms * Millisecond,
     isHealthy |-> row.is_healthy,
     error |-> IF row.error_message # <<>> THEN row.error_message[1] ELSE "",
     checkedAt |-> row.checked_at]

\* s.db.Exec(INSERT ...): the row is committed when Exec returns without error
DBExec(rows, row, err) == IF err = <<>> THEN Append(rows, row) ELSE rows

\* PostgresStore.SaveResult
StoreSaveResult(result, err) ==
    /\ Len(dbRows) < MaxRows
    /\ dbRows' = DBExec(dbRows, InsertRow(result), err)
    /\ stLast' = [NoStoreCall EXCEPT !.op = "SaveResult", !.url = result.url,
                                     !.results = <<result>>, !.err = err]
    /\ UNCHANGED <<cmVars, insVars, wsVars, regVars>>

RECURSIVE InsertRows(_)
\* the rows of a sequence of results
InsertRows(results) ==
    IF results = <<>> THEN <<>>
    ELSE <<InsertRow(Head(results))>> \o InsertRows(Tail(results))

\* what can go wrong in a call of SaveResults over n results: nothing,
\* db.Begin, the Exec of the i-th SaveResult, or tx.Commit
Faults(n) ==
    {[at |-> a, i |-> 0] : a \in {"none", "begin", "commit"}}
        \cup {[at |-> "exec", i |-> k] : k \in 1..n}

\* PostgresStore.SaveResults.  The loop calls s.SaveResult, which sends its
\* INSERT through s.db and not through tx, so tx holds no statement: Commit
\* and the deferred Rollback have nothing of the batch to act on.
SaveResults(rows, results, fault) ==
    LET written  == IF fault.at = "exec" THEN SubSeq(results, 1, fault.i - 1) ELSE results
        viaDB    == rows \o InsertRows(written)
        viaTx    == <<>>
    IN  IF fault.at = "begin"
        THEN [rows |-> rows, err |-> <<"begin failed">>]
        ELSE IF fault.at = "exec"
        THEN [rows |-> viaDB, err |-> <<"exec failed">>]
        ELSE IF fault.at = "commit"
        THEN [rows |-> viaDB, err |-> <<"commit failed">>]
        ELSE [rows |-> viaDB \o viaTx, err |-> <<>>]

StoreSaveResults(results, fault) ==
    /\ Len(dbRows) + Len(results) <= MaxRows
    /\ LET out == SaveResults(dbRows, results, fault)
       IN  /\ dbRows' = out.rows
           /\ stLast' = [NoStoreCall EXCEPT !.op = "SaveResults",
                                            !.results = results, !.err = out.err]
    /\ UNCHANGED <<cmVars, insVars, wsVars, regVars>>

\* WHERE url = $1 ORDER BY checked_at DESC: the orders the database may
\* return the matching rows in (rows of equal checked_at in any order)
RecentOrders(rows, url) ==
    LET matching == {i \in 1..Len(rows) : rows[i].url = url}
        n == Cardinality(matching)
    IN  {p \in [1..n -> matching] :
            /\ \A i, j \in 1..n : i # j => p[i] # p[j]
            /\ \A i, j \in 1..n : i < j => rows[p[i]].checked_at >= rows[p[j]].checked_at}

\* the limits asked for: the tool's default among them, and a negative one,
\* which the database rejects
QueryLimits == {-1, 0, 1, 10}

\* PostgresStore.GetRecentResults, the database returning order p.  The
\* query that fails is the one with a negative LIMIT; any other failure of
\* db.Query takes the same path.
GetRecentResults(rows, url, limit, p) ==
    LET n == IF limit < Len(p) THEN limit ELSE Len(p)
    IN  IF limit < 0
        THEN [results |-> <<>>, err |-> <<"query failed">>]
        ELSE [results |-> [i \in 1..n |-> ScanRow(rows[p[i]])], err |-> <<>>]

StoreGetRecentResults(url, limit) ==
    /\ \E p \in RecentOrders(dbRows, url) :
          LET out == GetRecentResults(dbRows, url, limit, p)
          IN  stLast' = [NoStoreCall EXCEPT !.op = "GetRecentResults", !.url = url,
                                            !.limit = limit,
                                            !.results = out.results, !.err = out.err]
    /\ UNCHANGED <<cmVars, insVars, wsVars, regVars, dbRows>>

RECURSIVE TotalResponseTime(_)
\* for _, result := range results { totalResponseTime += result.ResponseTime.Milliseconds() }
TotalResponseTime(results) ==
    IF results = <<>> THEN 0
    ELSE Milliseconds(Head(results).responseTime) + TotalResponseTime(Tail(results))

NoResultsIgnored(results) == FALSE

\* if len(results) == 0
NoResults(results) == Len(results) = 0

\* cmd/query main: "fatal" is log.Fatal, "skipped" the return before the
\* statistics, "panicked" an integer division by zero
QueryMain(url, limit) ==
    /\ \E p \in RecentOrders(dbRows, url) :
          LET out == GetRecentResults(dbRows, url, limit, p)
              results == out.results
              call == [NoStoreCall EXCEPT !.op = "query", !.url = url, !.limit = limit]
          IN  stLast' =
                 IF url = "" THEN [call EXCEPT !.stats = "fatal"]
                 ELSE IF out.err # <<>> THEN [call EXCEPT !.stats = "fatal", !.err = out.err]
                 ELSE IF NoResults(results) THEN [call EXCEPT !.stats = "skipped"]
                 ELSE IF Len(results) = 0
                 THEN [call EXCEPT !.stats = "panicked"]
                 ELSE [call EXCEPT !.results = results, !.stats = "printed",
                                   !.avgResponseTime =
                                       TotalResponseTime(results) \div Len(results)]
    /\ UNCHANGED <<cmVars, insVars, wsVars, regVars, dbRows>>

\* the batches handed to SaveResults
SaveBatches == SeqsUpTo(StoreResults, MaxSaveBatch)

InitStore ==
    /\ IdleCM
    /\ IdleIns
    /\ IdleWeb
    /\ IdleReg
    /\ IdleStore

NextStore ==
    \/ \E result \in StoreResults, err \in SaveOutcomes : StoreSaveResult(result, err)
    \/ \E results \in SaveBatches :
          \E fault \in Faults(Len(results)) : StoreSaveResults(results, fault)
    \/ \E url \in URLs, limit \in QueryLimits : StoreGetRecentResults(url, limit)
    \/ \E url \in URLs \cup {""}, limit \in QueryLimits : QueryMain(url, limit)

SpecStore == InitStore /\ [][NextStore]_vars

-----------------------------------------------------------------------------
(* Claims about the checker *)

\* C1: for every input list and every completion order, the i-th result
\* returned by CheckMultiple has the i-th input url.
C1_ResultsInInputOrder ==
    cmPc = "returned" =>
        \A i \in 1..Len(cmUrls) : cmResults[i].url = cmUrls[i]

\* what CheckMultiple has when it returns: N probes launched and completed,
\* N results, the urls of the results being the input urls as a multiset
ReturnedAll ==
    /\ cmLaunched = Len(cmUrls)
    /\ \A k \in 1..Len(cmUrls) : cmTask[k].pc = "sent"
    /\ Len(cmResults) = Len(cmUrls)
    /\ cmI = Len(cmUrls)
    /\ \A u \in URLs \cup {""} :
          Occurrences(UrlsOf(cmResults), u) = Occurrences(cmUrls, u)

\* C2: CheckMultiple on N urls launches N probes and returns only after all
\* N have completed, with exactly N results whose urls are the input urls as
\* a multiset; and, every Check returning, it eventually returns.
C2_JoinsAllProbes ==
    /\ [](cmPc = "returned" => ReturnedAll)
    /\ <>(cmPc = "returned")

C2_Witness ==
    /\ cmPc = "returned"
    /\ Len(cmUrls) = 2
    /\ cmUrls[1] # cmUrls[2]
    /\ cmResults[1].url = cmUrls[2]

\* C3: every CheckResult produced by Check has isHealthy equal to
\* (200 <= statusCode < 300) when error is empty, and isHealthy false when
\* error is non-empty.
C3_HealthRule ==
    \A k \in Checked :
        LET r == cmTask[k].res
        IN  /\ r.error = "" => (r.isHealthy <=> (200 <= r.statusCode /\ r.statusCode < 300))
            /\ r.error # "" => ~r.isHealthy

C3_Witness ==
    /\ \E k \in Checked : cmTask[k].res.statusCode = 299 /\ cmTask[k].res.isHealthy
    /\ \E k \in Checked : cmTask[k].res.statusCode = 300 /\ ~cmTask[k].res.isHealthy

\* C4: Check returns a CheckResult for the requested url; when the request
\* failed at transport level the result has a non-empty error, statusCode 0
\* and isHealthy false.
C4_TransportFailureCaptured ==
    \A k \in Checked :
        LET r == cmTask[k].res
        IN  /\ r.url = cmUrls[k]
            /\ cmTask[k].got.failed =>
                  (r.error # "" /\ r.statusCode = 0 /\ ~r.isHealthy)

C4_Witness ==
    \E k \in Checked : cmTask[k].got.failed /\ cmTask[k].res.error = "timeout"

\* C32: a probe task of CheckMultiple never waits to deliver its result
\* (there is room in `done` whenever a task is about to send), each task
\* sends exactly once, and no task is left when the call has returned.
C32_SendNeverBlocks ==
    /\ \A k \in 1..Len(cmUrls) :
           cmTask[k].pc = "checked" => Len(cmDone) < DoneCap
    /\ Cardinality({k \in 1..Len(cmUrls) : cmTask[k].pc = "sent"}) =
           Len(cmDone) + cmI
    /\ cmPc = "returned" => \A k \in 1..Len(cmUrls) : cmTask[k].pc = "sent"

\* every task but a slow one has delivered its result before the
\* collector received anything
C32_Witness ==
    /\ Len(cmUrls) >= 2
    /\ cmI = 0
    /\ Len(cmDone) = Len(cmUrls) - 1
    /\ \E k \in 1..Len(cmUrls) : cmTask[k].pc = "started"

-----------------------------------------------------------------------------
(* Claims about the rule-based fallback generator *)

\* the positions of the returned insights that have type t
OfType(t) == {i \in 1..Len(insOut.insights) : insOut.insights[i].type = t}

Unhealthy(result) == ~result.isHealthy

\* the sum of the response times of a batch
RECURSIVE SumResponseTimes(_)
SumResponseTimes(results) ==
    IF results = <<>> THEN 0
    ELSE Head(results).responseTime + SumResponseTimes(Tail(results))

FallbackRanOnBatch == insOp = "fallbackInsights" /\ insResults # <<>>

\* C5: given an empty result set, the rule-based generators (the engine's
\* fallbackInsights and the web server's generateInsights) return no
\* insights and do not divide by zero.
C5_EmptyBatchYieldsNoInsights ==
    (insOp \in {"fallbackInsights", "generateInsights"} /\ insResults = <<>>) =>
        (~insOut.panicked /\ insOut.insights = <<>>)

\* C8: on a non-empty result set the fallback emits exactly one alert if some
\* result is unhealthy and none otherwise; the alert has confidence 1.0 and
\* names exactly the urls of the unhealthy results, in input order.
C8_OneAlertNamingUnhealthy ==
    FallbackRanOnBatch =>
        /\ ~insOut.panicked
        /\ Cardinality(OfType("alert")) =
              (IF \E i \in 1..Len(insResults) : ~insResults[i].isHealthy THEN 1 ELSE 0)
        /\ \A i \in OfType("alert") :
              /\ insOut.insights[i].confidence = 100
              /\ insOut.insights[i].content.args[2] =
                    UrlsOf(SelectSeq(insResults, Unhealthy))
              /\ insOut.insights[i].content.args[1] =
                    Len(SelectSeq(insResults, Unhealthy))

C8_Witness ==
    /\ FallbackRanOnBatch
    /\ Len(insResults) = 3
    /\ ~insResults[1].isHealthy /\ insResults[2].isHealthy /\ ~insResults[3].isHealthy
    /\ insResults[1].url # insResults[3].url
    /\ OfType("alert") = {1}
    /\ insOut.insights[1].content.args[2] = <<insResults[1].url, insResults[3].url>>

\* C9: on a non-empty result set the fallback emits exactly one warning
\* (confidence 0.9) if some response time is strictly greater than 2 seconds
\* and none otherwise.
C9_OneWarningWhenSlow ==
    FallbackRanOnBatch =>
        /\ Cardinality(OfType("warning")) =
              (IF \E i \in 1..Len(insResults) : insResults[i].responseTime > 2 * Second
               THEN 1 ELSE 0)
        /\ \A i \in OfType("warning") : insOut.insights[i].confidence = 90

C9_Witness ==
    /\ FallbackRanOnBatch
    /\ \E i \in 1..Len(insResults) : insResults[i].responseTime = 2 * Second
    /\ \E i \in 1..Len(insResults) : insResults[i].responseTime = 2 * Second + 1
    /\ Cardinality(OfType("warning")) = 1

\* C10: on a non-empty result set the fallback emits exactly one success
\* insight (confidence 0.95) if and only if every result is healthy and the
\* average response time (sum divided by count) is strictly below 500ms.
C10_OneSuccessWhenAllHealthyAndFast ==
    FallbackRanOnBatch =>
        /\ Cardinality(OfType("success")) =
              (IF /\ \A i \in 1..Len(insResults) : insResults[i].isHealthy
                  /\ SumResponseTimes(insResults) < 500 * Millisecond * Len(insResults)
               THEN 1 ELSE 0)
        /\ \A i \in OfType("success") : insOut.insights[i].confidence = 95

C10_Witness ==
    /\ FallbackRanOnBatch
    /\ Len(insResults) = 2
    /\ insResults[1].responseTime = 500 * Millisecond
    /\ insResults[2].responseTime = 500 * Millisecond - 1
    /\ Cardinality(OfType("success")) = 1

\* the rank of an insight type in the order alert, warning, success, info
TypeRank(t) ==
    CASE t = "alert" -> 1 [] t = "warning" -> 2 [] t = "success" -> 3 [] OTHER -> 4

\* C11: on a non-empty result set the fallback's output ends with exactly
\* one info insight of confidence 0.8 and has no other info insight; so it
\* has at least one insight, and the insights come in the order alert,
\* warning, success, info.
C11_EndsWithOneInfo ==
    FallbackRanOnBatch =>
        LET insights == insOut.insights
            n == Len(insights)
        IN  /\ n >= 1
            /\ OfType("info") = {n}
            /\ insights[n].confidence = 80
            /\ \A i, j \in 1..n :
                  i < j => TypeRank(insights[i].type) < TypeRank(insights[j].type)

C11_Witness ==
    /\ FallbackRanOnBatch
    /\ Len(insOut.insights) = 3
    /\ insOut.insights[1].type = "alert"
    /\ insOut.insights[2].type = "warning"
    /\ insOut.insights[3].type = "info"

\* what the claims compare of a sequence of insights
TitlesTypesConfidences(insights) ==
    [i \in 1..Len(insights) |->
        <<insights[i].title, insights[i].type, insights[i].confidence>>]

C28_WebRulesMatchFallback ==
    (insOp = "generateInsights" /\ insResults # <<>>) =>
        LET web    == insOut.insights
            engine == fallbackInsights(insResults).insights
        IN  /\ Len(web) = Len(engine)
            /\ \A i \in 1..Len(web) :
                  i <= Len(engine) =>
                      /\ web[i].type = engine[i].type
                      /\ web[i].confidence = engine[i].confidence

-----------------------------------------------------------------------------
(* Claims about AnalyzeEndpoints *)

\* a completion without parsable insights: no bracketed array, text between
\* the brackets that is not a JSON array of objects, or an empty array
NothingParsable(text) ==
    \/ \A i \in 1..Len(text) : text[i] # "["
    \/ \A i \in 1..Len(text) : text[i] # "]"
    \/ \E i, j \in 1..Len(text) :
          /\ text[i] = "[" /\ \A k \in 1..(i - 1) : text[k] # "["
          /\ text[j] = "]" /\ \A k \in (j + 1)..Len(text) : text[k] # "]"
          /\ \/ j < i
             \/ j = i + 1
             \/ ~UnmarshalOk(SubSeq(text, i, j))

\* C7: AnalyzeEndpoints never fails hard: a failed completion call gives the
\* fallback insights together with the error; a completion without parsable
\* insights gives the fallback insights and no error; any other completion
\* gives the parsed insights and no error.
C7_AnalyzeDegradesToFallback ==
    insOp = "AnalyzeEndpoints" =>
        /\ ~insOut.panicked
        /\ insCall.kind # "ok" =>
              /\ insOut.insights = fallbackInsights(insResults).insights
              /\ insOut.err # <<>>
              /\ insOut.err[Len(insOut.err)] = insCall.kind
        /\ (insCall.kind = "ok" /\ NothingParsable(insCall.content)) =>
              /\ insOut.insights = fallbackInsights(insResults).insights
              /\ insOut.err = <<>>
        /\ (insCall.kind = "ok" /\ ~NothingParsable(insCall.content)) =>
              /\ insOut.insights = parseInsights(insCall.content)
              /\ insOut.insights # <<>>
              /\ insOut.err = <<>>

\* the part of C7 that the division by zero of fallbackInsights leaves
\* standing: the same statement for the non-empty batches
C7_OnNonEmptyBatch == insResults # <<>> => C7_AnalyzeDegradesToFallback

\* type strings a completion may carry: the four of the enumeration, the
\* empty string, other case, other words
SampleTypes == ValidTypes \cup {"", "Alert", "WARNING", "critical", "error"}

\* the completion was parsed: AnalyzeEndpoints returned its insights
ParsedCompletion ==
    /\ insOp = "AnalyzeEndpoints"
    /\ insCall.kind = "ok"
    /\ ~NothingParsable(insCall.content)

\* the JSON objects of the array of a parsed completion
ParsedObjects ==
    Unmarshal(SubSeq(insCall.content, Index(insCall.content, "["),
                     LastIndex(insCall.content, "]")))

\* C12: every insight returned by AnalyzeEndpoints has a type among alert,
\* warning, info, success; an insight whose type from the completion service
\* is any other string is returned with type info and its other fields
\* unchanged.
C12_TypesAreEnumerated ==
    /\ \A t \in SampleTypes :
          /\ validateType(t) \in ValidTypes
          /\ t \notin ValidTypes => validateType(t) = "info"
    /\ insOp = "AnalyzeEndpoints" =>
          \A i \in 1..Len(insOut.insights) : insOut.insights[i].type \in ValidTypes
    /\ ParsedCompletion =>
          /\ Len(insOut.insights) = Len(ParsedObjects)
          /\ \A i \in 1..Len(ParsedObjects) :
                LET raw == ParsedObjects[i]
                IN  insOut.insights[i] =
                        [raw EXCEPT !.type = IF raw.type \in ValidTypes
                                             THEN raw.type ELSE "info"]

C12_Witness ==
    /\ ParsedCompletion
    /\ Len(ParsedObjects) = 2
    /\ ParsedObjects[1].type = "alert" /\ insOut.insights[1].type = "alert"
    /\ ParsedObjects[2].type = "critical" /\ insOut.insights[2].type = "info"

\* C13: every insight returned by AnalyzeEndpoints has a confidence within
\* [0, 1], whatever confidences the completion carries.
C13_ConfidenceInUnitRange ==
    insOp = "AnalyzeEndpoints" =>
        \A i \in 1..Len(insOut.insights) :
            insOut.insights[i].confidence >= 0 /\ insOut.insights[i].confidence <= 100

-----------------------------------------------------------------------------
(* Claims about the web server *)

\* C6: after any sequence of add and remove requests, and whether the
\* completion service is disabled, failing or working, a GET /api/insights
\* request completes with an insights response rather than failing.
C6_InsightsAlwaysProduced ==
    \A r \in Requests :
        (wsReq[r].kind = "insights" /\ wsReq[r].pc = "done") => wsReq[r].status = 200

\* the URL set as a set
Monitored(urls) == {urls[i] : i \in 1..Len(urls)}

\* C19: POST /api/endpoints with url u (after trimming whitespace): if u is
\* empty or starts with neither http:// nor https://, the request is
\* rejected as a client error and the URL set is unchanged; if u is already
\* in the URL set, the request is rejected with a conflict and the set is
\* unchanged; otherwise u is appended and the request succeeds.
C19_PostValidatesAndAppends ==
    [][\A raw \in RawURLs :
          WebPost(TRUE, raw) =>
              LET u == TrimSpace(raw)
              IN  IF u = <<>> \/ Head(u) \notin {"http://", "https://"}
                  THEN wsLast'.status \in 400..499 /\ wsUrls' = wsUrls
                  ELSE IF u \in Monitored(wsUrls)
                  THEN wsLast'.status = 409 /\ wsUrls' = wsUrls
                  ELSE wsLast'.status \in 200..299 /\ wsUrls' = Append(wsUrls, u)]_vars

\* a POST of a monitored url, given with surrounding blanks, was answered
\* with a conflict
C19_Witness ==
    /\ wsLast = Answered("POST", <<" ", "https://", "a", " ">>, 409)
    /\ <<"https://", "a">> \in Monitored(wsUrls)

\* C20: DELETE /api/endpoints with a url that is not in the URL set returns
\* not-found and leaves the set unchanged; with a url that is in the set it
\* removes that url and succeeds, so that the url is no longer in the set
\* and a second DELETE of it returns not-found.
C20_DeleteRemovesOrNotFound ==
    [][\A raw \in RawURLs :
          (WebDelete(TRUE, raw) /\ TrimSpace(raw) # <<>>) =>
              LET u == TrimSpace(raw)
              IN  IF u \notin Monitored(wsUrls)
                  THEN wsLast'.status = 404 /\ wsUrls' = wsUrls
                  ELSE /\ wsLast'.status \in 200..299
                       /\ Monitored(wsUrls') = Monitored(wsUrls) \ {u}
                       /\ Len(wsUrls') = Len(wsUrls) - 1]_vars

\* a second DELETE of a url of the initial set was answered with not-found
C20_Witness ==
    /\ wsLast = Answered("DELETE", <<"https://", "a">>, 404)
    /\ <<"https://", "a">> \in Monitored(DefaultURLs)
    /\ <<"https://", "a">> \notin Monitored(wsUrls)

\* C27: a status response has exactly one entry for every URL of the
\* snapshot its handler took, whatever was added or removed meanwhile.
C27_OneEntryPerSnapshotUrl ==
    \A r \in Requests :
        (wsReq[r].kind = "status" /\ wsReq[r].pc = "done") =>
            /\ Len(wsReq[r].body) = Len(wsReq[r].urls)
            /\ \A u \in Monitored(wsReq[r].urls) :
                   Cardinality({i \in 1..Len(wsReq[r].body) :
                                    wsReq[r].body[i].url = u}) = 1

\* a status response whose snapshot is no longer the monitored list
C27_Witness ==
    \E r \in Requests :
        /\ wsReq[r].kind = "status"
        /\ wsReq[r].pc = "done"
        /\ Len(wsReq[r].body) = 2
        /\ Monitored(wsReq[r].urls) # Monitored(wsUrls)

NoDuplicates(urls) ==
    \A i, j \in 1..Len(urls) : urls[i] = urls[j] => i = j

\* C30: the monitored list never holds a URL twice, and a POST of a valid
\* URL is answered 201 exactly when the URL is not monitored at the moment
\* the handler holds the lock, so of two POSTs of one new URL the first is
\* answered 201 and the second 409.
C30_NoDuplicateUrls ==
    /\ []NoDuplicates(wsUrls)
    /\ [][\A raw \in RawURLs :
              (WebPost(TRUE, raw) /\ wsLast'.status \in {201, 409}) =>
                  /\ wsLast'.status = 201 <=>
                         TrimSpace(raw) \notin Monitored(wsUrls)
                  /\ TrimSpace(raw) \in Monitored(wsUrls')
                  /\ NoDuplicates(wsUrls')]_vars

\* a URL was removed, added again by one POST, and a second POST of it
\* was answered 409
C30_Witness ==
    /\ wsLast.method = "POST"
    /\ wsLast.status = 409
    /\ Len(wsUrls) = 2
    /\ TrimSpace(wsLast.url) = wsUrls[2]
    /\ wsUrls[2] = DefaultURLs[1]

\* C34: a successful DELETE of url u removes exactly one entry, every
\* other url stays in the list and keeps its place relative to the
\* others, and the snapshots that requests in flight have taken stay as
\* they were.
C34_DeleteKeepsOthersInOrder ==
    [][\A raw \in RemovalURLs :
          (WebDelete(TRUE, raw) /\ wsLast'.status = 200) =>
              LET u == TrimSpace(raw)
                  others == Monitored(wsUrls) \ {u}
              IN  /\ Len(wsUrls') = Len(wsUrls) - 1
                  /\ Monitored(wsUrls') = others
                  /\ \A v, w \in others :
                         PositionOf(wsUrls, v) < PositionOf(wsUrls, w) <=>
                             PositionOf(wsUrls', v) < PositionOf(wsUrls', w)
                  /\ \A r \in Requests : wsReq'[r].urls = wsReq[r].urls]_vars

\* the first of three urls was removed while a request was probing a
\* snapshot that holds it
C34_Witness ==
    /\ wsLast = Answered("DELETE", ListedURLs[1], 200)
    /\ wsUrls = <<ListedURLs[2], ListedURLs[3]>>
    /\ \E r \in Requests :
           /\ wsReq[r].pc = "snapshot"
           /\ wsReq[r].urls = ListedURLs

-----------------------------------------------------------------------------
(* Claims about the endpoint registry and its polling loops *)

\* the loops that have started their select loop and have not returned
Polling == {k \in 1..Len(regLoops) : regLoops[k].pc \in {"select", "checking", "publishing"}}

\* C14: an endpoint registered by AddEndpoint is listed by ListEndpoints,
\* with its own url, interval and timeout and enabled, until StopMonitoring
\* is called with the id AddEndpoint returned for it; after k AddEndpoint
\* calls and no StopMonitoring call the registry holds k endpoints.
C14_RegisteredUntilStopped ==
    /\ \A k \in 1..Len(regLoops) :
          ~regLoops[k].stopped => regLoops[k].endpoint \in ListEndpoints
    /\ regLast = NoRegCall => Cardinality(DOMAIN regEndpoints) = Len(regLoops)

\* C15: StopMonitoring(id) for a registered id leaves the id in neither
\* map, and every polling loop that was started for that id and has not
\* returned has its stop channel closed, which is what lets it observe the
\* cancellation at its next select and exit.
C15_StopCancelsLoop ==
    [][\A id \in EndpointIDs :
          (id \in DOMAIN regStopChannels /\ StopMonitoring(id)) =>
              /\ id \notin DOMAIN regEndpoints'
              /\ id \notin DOMAIN regStopChannels'
              /\ \A k \in 1..Len(regLoops) :
                    (regLoops[k].endpoint.ID = id /\ regLoops[k].pc # "exited")
                        => regLoops'[k].closed]_vars

\* C16: StopMonitoring with an id that is not registered (never registered,
\* or stopped before) returns normally, closes no channel and leaves the
\* endpoint map, the stop-channel map and every polling loop unchanged.
C16_UnknownIdIsNoOp ==
    [][\A id \in EndpointIDs :
          (id \notin DOMAIN regStopChannels /\ StopMonitoring(id)) =>
              /\ UNCHANGED <<regEndpoints, regStopChannels, regLoops, regStream>>
              /\ ~regPanicked']_vars

\* StopMonitoring found nothing under an id, one loop having been stopped
\* earlier and another one still registered and polling
C16_Witness ==
    /\ regLast = "absent"
    /\ ~regPanicked
    /\ \E k \in 1..Len(regLoops) : regLoops[k].stopped
    /\ \E k \in Polling :
          /\ ~regLoops[k].closed
          /\ regLoops[k].endpoint.ID \in DOMAIN regStopChannels
          /\ regLoops[k].endpoint.ID \in DOMAIN regEndpoints

\* C17: the result stream never holds more than its capacity; a loop that
\* publishes appends its result when there is room and drops it when the
\* stream is full, and in both cases goes back to waiting for its next
\* tick or its cancellation.
C17_PublishNeverBlocks ==
    /\ [](Len(regStream) <= StreamCapacity)
    /\ [][\A k \in 1..Len(regLoops) :
             (regLoops[k].pc = "publishing" /\ regLoops'[k].pc # "publishing") =>
                 /\ regLoops'[k].pc = "select"
                 /\ regStream' = IF Len(regStream) = StreamCapacity
                                 THEN regStream
                                 ELSE Append(regStream, regLoops[k].result)]_vars

\* two producers, no result taken: the stream went from one below its
\* capacity to full, and a result was dropped
C17_Witness ==
    /\ Len(regLoops) = 2
    /\ Polling = {1, 2}
    /\ \A k \in Polling : regLoops[k].pc = "select"
    /\ regTicks = 2
    /\ regReceived = 0
    /\ Len(regStream) = StreamCapacity

\* C18: a loop whose SaveResult failed goes on to offer the same result to
\* the stream, and then goes back to waiting for later ticks; it never
\* returns because of the failure.
C18_SaveFailureNeitherStopsNorSuppresses ==
    /\ [](\A k \in 1..Len(regLoops) :
             regLoops[k].saveErr # <<>> => k \in Polling)
    /\ [][\A k \in 1..Len(regLoops) :
             /\ (regLoops[k].pc = "checking" /\ regLoops'[k].pc # "checking"
                     /\ regLoops'[k].saveErr # <<>>) =>
                    /\ regLoops'[k].pc = "publishing"
                    /\ regLoops'[k].result.url = regLoops[k].endpoint.URL
             /\ (regLoops[k].pc = "publishing" /\ regLoops'[k].pc # "publishing"
                     /\ regLoops[k].saveErr # <<>>) =>
                    /\ regLoops'[k].pc = "select"
                    /\ Len(regStream) < StreamCapacity =>
                           regStream' = Append(regStream, regLoops[k].result)]_vars

\* a loop whose save failed has delivered its result and taken a later tick
C18_Witness ==
    \E k \in 1..Len(regLoops) :
        /\ regLoops[k].pc = "checking"
        /\ regLoops[k].saveErr # <<>>
        /\ regStream # <<>>
        /\ regStream[Len(regStream)].url = regLoops[k].endpoint.URL
        /\ Len(regStream) < StreamCapacity - 1

\* C25: every polling loop that is still running and has not been
\* cancelled can be cancelled through the registry: the stop-channel map
\* holds its channel under its endpoint's id.
C25_RunningLoopsStayCancellable ==
    \A k \in 1..Len(regLoops) :
        (regLoops[k].pc \notin {"exited", "panicked"} /\ ~regLoops[k].closed) =>
            /\ regLoops[k].endpoint.ID \in DOMAIN regStopChannels
            /\ regStopChannels[regLoops[k].endpoint.ID] = k

\* C29: once StopMonitoring has been called with a loop's id, the loop
\* completes no further check or save and publishes no further result.
C29_NothingAfterStop ==
    [][\A k \in 1..Len(regLoops) :
          regLoops[k].stopped =>
              /\ ~(regLoops[k].pc = "checking" /\ regLoops'[k].pc = "publishing")
              /\ ~(regLoops[k].pc = "publishing" /\ regLoops'[k].pc = "select")]_vars

\* C31: whenever no call holds the lock, the endpoint map and the
\* stop-signal map have the same set of ids.
C31_MapsHaveSameIds == DOMAIN regEndpoints = DOMAIN regStopChannels

\* two endpoints were added and one of them was stopped
C31_Witness ==
    /\ Len(regLoops) = 2
    /\ regLast = "stopped"
    /\ Cardinality(DOMAIN regEndpoints) = 1
    /\ \E k \in 1..Len(regLoops) :
           /\ ~regLoops[k].stopped
           /\ regLoops[k].endpoint.ID \in DOMAIN regStopChannels

\* C33: an endpoint that is listed in the registry has a polling loop
\* with a strictly positive tick interval, and its loop has not failed
\* when it made its ticker.
C33_ListedLoopsTick ==
    \A k \in 1..Len(regLoops) :
        (regLoops[k].pc # "start" /\ regLoops[k].endpoint.ID \in DOMAIN regEndpoints) =>
            /\ regLoops[k].endpoint.IntervalSeconds > 0
            /\ regLoops[k].pc # "panicked"

-----------------------------------------------------------------------------
(* Claims about the result store and the query tool *)

\* C21: SaveResults is all-or-nothing: when it returns an error none of the
\* batch's results is persisted, and when it returns nil all of them are.
C21_SaveResultsAllOrNothing ==
    [][stLast'.op = "SaveResults" =>
          IF stLast'.err # <<>>
          THEN dbRows' = dbRows
          ELSE dbRows' = dbRows \o InsertRows(stLast'.results)]_vars

\* the rows of a url that no other row of that url is as recent as
MostRecent(url) ==
    {i \in 1..Len(dbRows) :
        /\ dbRows[i].url = url
        /\ \A j \in 1..Len(dbRows) :
              (j # i /\ dbRows[j].url = url) => dbRows[j].checked_at < dbRows[i].checked_at}

\* C22: when r, saved by a successful SaveResult, is the most recent record
\* of its url, GetRecentResults(r.url, 1) returns one record with r's url,
\* statusCode, isHealthy and error text, and with r's response time rounded
\* to the millisecond.
C22_RoundTrip ==
    (/\ stLast.op = "GetRecentResults"
     /\ stLast.limit = 1
     /\ stLast.err = <<>>
     /\ MostRecent(stLast.url) # {}) =>
        \A i \in MostRecent(stLast.url) :
            LET r == dbRows[i].saved
            IN  /\ Len(stLast.results) = 1
                /\ stLast.results[1].url = r.url
                /\ stLast.results[1].statusCode = r.statusCode
                /\ stLast.results[1].isHealthy = r.isHealthy
                /\ stLast.results[1].error = r.error
                /\ stLast.results[1].responseTime = RoundMillisecond(r.responseTime)

RECURSIVE SumOfMilliseconds(_, _)
\* the whole milliseconds of the first n results, added up
SumOfMilliseconds(results, n) ==
    IF n = 0 THEN 0
    ELSE SumOfMilliseconds(results, n - 1) + results[n].responseTime \div Millisecond

\* C24: the average the query tool prints is the sum of the results'
\* response times in milliseconds divided by their number; with no results
\* the statistics are skipped, so that the division never has a zero divisor.
C24_AverageGuarded ==
    stLast.op = "query" =>
        /\ stLast.stats \in {"fatal", "skipped", "printed"}
        /\ stLast.stats = "skipped" => stLast.results = <<>>
        /\ stLast.stats = "printed" =>
              /\ stLast.results # <<>>
              /\ stLast.avgResponseTime =
                    SumOfMilliseconds(stLast.results, Len(stLast.results))
                        \div Len(stLast.results)

\* two results of 1 ms and 2 ms: the average printed is 1 ms
C24_Witness ==
    /\ stLast.op = "query"
    /\ stLast.stats = "printed"
    /\ Len(stLast.results) = 2
    /\ SumOfMilliseconds(stLast.results, 2) = 3
    /\ stLast.avgResponseTime = 1


=============================================================================
